---- MODULE Spec2Model ----
(***************************************************************************)
(* The secure_ai_detector program (blockchain/programs/secure-ai-detector/ *)
(* src/lib.rs): one StorageAccount {video_hash, authenticity_score} per    *)
(* storage reference, written by the instructions initialize and update.   *)
(*                                                                         *)
(* A transaction is modelled as the steps the program's declarations make  *)
(* the runtime take: the accounts of the instruction are validated and     *)
(* loaded (Initialize / Update structs), the handler body runs on the      *)
(* loaded copy, the copy is serialized back into the account's data on     *)
(* exit, and the transaction commits.  Every Err discards the working      *)
(* copy.                                                                   *)
(*                                                                         *)
(* The file as written is not accepted by rustc: each handler body moves   *)
(* its String argument into the record (lib.rs:11, :19) and names it again *)
(* in msg! (lib.rs:13, :21), error E0382; BuildResult states this.  The    *)
(* state machine below is therefore not a build of the file.  It is the    *)
(* program the other statements of the file define: the account            *)
(* declarations and the two assignments of each body, which are well       *)
(* formed and which any repair of the msg! statements leaves as they are.  *)
(* The msg! statements have no behaviour to model and are not modelled.    *)
(*                                                                         *)
(* Bytes are the numbers 0..255.  A String is the sequence of its UTF-8    *)
(* bytes.  Scores are u64; the model draws them below 2^31 because no      *)
(* arithmetic is done on a score, it is only encoded and decoded.          *)
(***************************************************************************)
EXTENDS Integers, Sequences, FiniteSets, TLC

VARIABLES
    accounts,   \* committed ledger: storage reference -> [owner, data]
    pc,         \* position of the transaction in flight, "idle" when none
    tx,         \* the instruction in flight: [op, ref, hash, score, caller (, signed)]
    work,       \* the transaction's working copy of the account tx.ref
    st,         \* the deserialized StorageAccount the handler mutates
    result,     \* outcome of the last transaction
    pre,        \* the ledger as it was when the last transaction started
    created,    \* history: the references on which an initialize committed
    lastOk,     \* history: the last committed instruction on each reference
    capFailed,  \* history: the references on which an initialize ran out of space
    ntx,        \* number of transactions submitted so far
    prevOk,     \* history: lastOk of tx.ref as it was when the transaction started
    creator,    \* history: the client whose initialize committed on each reference
    pending,    \* transactions submitted to the runtime and not yet started
    race,       \* history: the transaction that started while tx was pending
    handled     \* history: whether the handler body of the last transaction had run

vars == <<accounts, pc, tx, work, st, result, pre, created, lastOk, capFailed, ntx,
          prevOk, creator, pending, race, handled>>

----------------------------------------------------------------------------
(* Bounds of the model *)

MaxTx == 3

(* Inputs *)

Refs == {"A", "B"}

Rep(n, b) == [i \in 1..n |-> b]

\* "", "x", 256 x 'd', 257 x 'd'
Hashes == {<<>>, <<120>>, Rep(256, 100), Rep(257, 100)}

Scores == {0, 950}

\* the clients that submit transactions; Spec has one client submit them all
Callers == {"alice", "bob"}

Client == "alice"

----------------------------------------------------------------------------
(* Layout of the account data *)

\* variant: an allocation one byte wider
SPACE_wide == 8 + 4 + 257 + 8

\* space = 8 + 4 + 256 + 8
SPACE == 8 + 4 + 256 + 8

\* the share of SPACE left to the bytes of video_hash
MaxHashLen == 256

\* #[account] on StorageAccount: the first 8 bytes of sha256("account:StorageAccount")
DISCRIMINATOR == <<41, 48, 231, 194, 22, 77, 205, 235>>

RECURSIVE LEBytes(_, _)
\* n as k little-endian bytes
LEBytes(n, k) == IF k = 0 THEN <<>> ELSE <<n % 256>> \o LEBytes(n \div 256, k - 1)

RECURSIVE FromLE(_)
FromLE(bytes) == IF bytes = <<>> THEN 0 ELSE Head(bytes) + 256 * FromLE(Tail(bytes))

\* borsh of the struct: String = u32 length + bytes, u64 = 8 bytes
BorshSerialize(s) ==
    LEBytes(Len(s.video_hash), 4) \o s.video_hash \o LEBytes(s.authenticity_score, 8)

\* variant: the struct serialized without its discriminator
TrySerialize_untagged(s) == BorshSerialize(s)

\* AccountSerialize::try_serialize: discriminator, then the borsh of the fields
TrySerialize(s) == DISCRIMINATOR \o BorshSerialize(s)

\* what a deserialization yields when the buffer ends before the struct does
DidNotDeserialize == [err |-> "AccountDidNotDeserialize"]

\* borsh of the struct read from the front of buf; the bytes after it are ignored
BorshDeserialize(buf) ==
    IF Len(buf) < 4
    THEN DidNotDeserialize
    ELSE LET n == FromLE(SubSeq(buf, 1, 4))
         IN  IF Len(buf) < 4 + n + 8
             THEN DidNotDeserialize
             ELSE [video_hash |-> SubSeq(buf, 5, 4 + n),
                   authenticity_score |-> FromLE(SubSeq(buf, 5 + n, 12 + n))]

\* AccountDeserialize::try_deserialize_unchecked: the fields after the 8-byte tag
TryDeserializeUnchecked(data) == BorshDeserialize(SubSeq(data, 9, Len(data)))

HasDiscriminator(data) == Len(data) >= 8 /\ SubSeq(data, 1, 8) = DISCRIMINATOR

----------------------------------------------------------------------------
(* Accounts *)

Unallocated == [owner |-> "system", data |-> <<>>]

\* the state tag of a storage reference
Initialized(a) == a.owner = "program" /\ HasDiscriminator(a.data)

\* the record a reader of the account obtains
Read(a) == TryDeserializeUnchecked(a.data)

NoTx == [op |-> "none"]
NoSt == [video_hash |-> <<>>, authenticity_score |-> 0]

----------------------------------------------------------------------------
(* Account constraints of the two instructions *)

\* variant: the signer is an account of which no signature is asked
SignerCheck_none(signed) == TRUE

\* pub signer: Signer<'info>: the account must have signed the transaction
SignerCheck(signed) == signed

\* variant: init that takes over an account already in use
InitConstraint_reinit(a) ==
    [err |-> "Ok", account |-> [owner |-> "program", data |-> Rep(SPACE, 0)]]

\* #[account(init, payer = signer, space = 8 + 4 + 256 + 8)]: the system program
\* creates the account, which it refuses for an account already in use; the new
\* account is SPACE zero bytes owned by the program
InitConstraint(a) ==
    IF a.owner = "system" /\ a.data = <<>>
    THEN [err |-> "Ok", account |-> [owner |-> "program", data |-> Rep(SPACE, 0)]]
    ELSE [err |-> "AlreadyInitialized", account |-> a]

\* variant: a load that takes any account, an empty one as an empty record
AccountLoad_unchecked(a) ==
    [err |-> "Ok",
     storage_account |-> IF HasDiscriminator(a.data)
                         THEN TryDeserializeUnchecked(a.data) ELSE NoSt]

\* pub storage_account: Account<'info, StorageAccount> of Update: the account must
\* be owned by the program and carry the StorageAccount discriminator
AccountLoad(a) ==
    IF a.owner = "system" \/ ~HasDiscriminator(a.data)
    THEN [err |-> "NotInitialized", storage_account |-> NoSt]
    ELSE IF TryDeserializeUnchecked(a.data) = DidNotDeserialize
    THEN [err |-> "AccountDidNotDeserialize", storage_account |-> NoSt]
    ELSE [err |-> "Ok", storage_account |-> TryDeserializeUnchecked(a.data)]

\* variant: one byte of the data is held back (the limit is off by one)
AccountExit_strict(a, s) ==
    LET bytes == TrySerialize(s)
        n     == IF Len(bytes) < Len(a.data) THEN Len(bytes) ELSE Len(a.data)
        data  == SubSeq(bytes, 1, n) \o SubSeq(a.data, n + 1, Len(a.data))
    IN  [err     |-> IF Len(bytes) < Len(a.data) THEN "Ok" ELSE "CapacityExceeded",
         account |-> [a EXCEPT !.data = data]]

\* variant: the data grows to hold whatever is written
AccountExit_grow(a, s) ==
    LET bytes == TrySerialize(s)
    IN  [err     |-> "Ok",
         account |-> [a EXCEPT !.data =
                         bytes \o SubSeq(a.data, Len(bytes) + 1, Len(a.data))]]

\* variant: the data is cut to the bytes written, as if sized to the record
AccountExit_fit(a, s) ==
    LET bytes == TrySerialize(s)
    IN  [err     |-> IF Len(bytes) <= Len(a.data) THEN "Ok" ELSE "CapacityExceeded",
         account |-> [a EXCEPT !.data =
                         IF Len(bytes) <= Len(a.data) THEN bytes ELSE a.data]]

\* variant: a write that stops at the end of the data is not reported
AccountExit_truncate(a, s) ==
    LET bytes == TrySerialize(s)
        n     == IF Len(bytes) <= Len(a.data) THEN Len(bytes) ELSE Len(a.data)
    IN  [err     |-> "Ok",
         account |-> [a EXCEPT !.data =
                         SubSeq(bytes, 1, n) \o SubSeq(a.data, n + 1, Len(a.data))]]

\* what the working copy of the account holds after its data was written with
\* the serialized struct: the write stops at the end of the data, which fails
AccountExit(a, s) ==
    LET bytes == TrySerialize(s)
        n     == IF Len(bytes) <= Len(a.data) THEN Len(bytes) ELSE Len(a.data)
        data  == SubSeq(bytes, 1, n) \o SubSeq(a.data, n + 1, Len(a.data))
    IN  [err     |-> IF Len(bytes) <= Len(a.data) THEN "Ok" ELSE "CapacityExceeded",
         account |-> [a EXCEPT !.data = data]]

----------------------------------------------------------------------------
(* The instruction handlers *)

\* variant: initialize without the assignment of authenticity_score
initialize_hash_only(storage_account, video_hash, authenticity_score) ==
    [storage_account |-> [storage_account EXCEPT !.video_hash = video_hash]]

\* pub fn initialize, lines 10-12: the two assignments to the loaded record
initialize(storage_account, video_hash, authenticity_score) ==
    [storage_account |-> [storage_account EXCEPT
                             !.video_hash = video_hash,
                             !.authenticity_score = authenticity_score]]

\* variant: update that adds the new score to the stored one
update_add_score(storage_account, new_video_hash, new_authenticity_score) ==
    [storage_account |-> [storage_account EXCEPT
                             !.video_hash = new_video_hash,
                             !.authenticity_score = @ + new_authenticity_score]]

\* variant: update without the assignment of authenticity_score
update_keep_score(storage_account, new_video_hash, new_authenticity_score) ==
    [storage_account |-> [storage_account EXCEPT !.video_hash = new_video_hash]]

\* pub fn update, lines 18-20: the two assignments to the loaded record
update(storage_account, new_video_hash, new_authenticity_score) ==
    [storage_account |-> [storage_account EXCEPT
                             !.video_hash = new_video_hash,
                             !.authenticity_score = new_authenticity_score]]

----------------------------------------------------------------------------
(* The build of the file as written *)

\* what the statements of initialize do to the binding video_hash, in source
\* order: line 11 moves it into the record, line 13 reads it in msg!
initialize_body == <<"move", "read">>

\* the same for new_video_hash in update: line 19 moves it, line 21 reads it
update_body == <<"move", "read">>

RECURSIVE BorrowCheck(_, _)
\* rustc's check of one String binding along a straight-line body: a read of
\* the binding after its value was moved away is error E0382
BorrowCheck(stmts, moved) ==
    IF stmts = <<>> THEN "Ok"
    ELSE IF Head(stmts) = "read" /\ moved THEN "E0382"
    ELSE BorrowCheck(Tail(stmts), moved \/ Head(stmts) = "move")

\* the outcome of compiling the file: no program is produced
BuildResult ==
    IF BorrowCheck(initialize_body, FALSE) = "Ok" /\ BorrowCheck(update_body, FALSE) = "Ok"
    THEN "Ok" ELSE "E0382"

----------------------------------------------------------------------------
(* The runtime's end of a transaction *)

\* variant: the working copy is written to every account of the ledger
CommitLedger_all(ledger, ref, w) == [r \in DOMAIN ledger |-> w]

\* Ok(()): the working copy of the account becomes the committed account
CommitLedger(ledger, ref, w) == [ledger EXCEPT ![ref] = w]

\* variant: the working copy of a failed transaction is kept
RollbackLedger_keep(ledger, ref, w) == [ledger EXCEPT ![ref] = w]

\* Err: the working copy is dropped
RollbackLedger(ledger, ref, w) == ledger

\* one instruction from the validation of its accounts to its end, on the ledger
\* it finds: its result and the ledger it leaves
ProcessInstruction(ledger, t) ==
    LET a == ledger[t.ref]
    IN  IF t.op = "initialize"
        THEN IF ~SignerCheck(t.signed)
             THEN [err |-> "AuthorizationFailed",
                   ledger |-> RollbackLedger(ledger, t.ref, a)]
             ELSE LET c == InitConstraint(a)
                      h == initialize(TryDeserializeUnchecked(c.account.data),
                                      t.hash, t.score)
                      e == AccountExit(c.account, h.storage_account)
                  IN  IF c.err # "Ok"
                      THEN [err |-> c.err, ledger |-> RollbackLedger(ledger, t.ref, a)]
                      ELSE IF e.err # "Ok"
                      THEN [err |-> e.err,
                            ledger |-> RollbackLedger(ledger, t.ref, e.account)]
                      ELSE [err |-> "Ok",
                            ledger |-> CommitLedger(ledger, t.ref, e.account)]
        ELSE LET l == AccountLoad(a)
                 h == update(l.storage_account, t.hash, t.score)
                 e == AccountExit(a, h.storage_account)
             IN  IF l.err # "Ok"
                 THEN [err |-> l.err, ledger |-> RollbackLedger(ledger, t.ref, a)]
                 ELSE IF e.err # "Ok"
                 THEN [err |-> e.err,
                       ledger |-> RollbackLedger(ledger, t.ref, e.account)]
                 ELSE [err |-> "Ok",
                       ledger |-> CommitLedger(ledger, t.ref, e.account)]

----------------------------------------------------------------------------
(* State machine *)

NoRec == [none |-> TRUE]

\* no transaction started while the one in flight was pending
NoRace == [none |-> TRUE]

Init ==
    /\ accounts = [r \in Refs |-> Unallocated]
    /\ pc = "idle"
    /\ tx = NoTx
    /\ work = Unallocated
    /\ st = NoSt
    /\ result = "None"
    /\ pre = [r \in Refs |-> Unallocated]
    /\ created = {}
    /\ lastOk = [r \in Refs |-> NoRec]
    /\ capFailed = {}
    /\ ntx = 0
    /\ prevOk = NoRec
    /\ creator = [r \in Refs |-> "nobody"]
    /\ pending = {}
    /\ race = NoRace
    /\ handled = FALSE

\* the transaction in flight ends in the error e with the working copy w of its
\* account: nothing of it is kept
Fail(e, w) ==
    /\ accounts' = RollbackLedger(accounts, tx.ref, w)
    /\ pc' = "idle"
    /\ work' = Unallocated
    /\ st' = NoSt
    /\ result' = e
    /\ capFailed' = IF tx.op = "initialize" /\ e = "CapacityExceeded"
                    THEN capFailed \cup {tx.ref} ELSE capFailed
    /\ handled' = (pc \in {"exit", "commit"})
    /\ UNCHANGED <<tx, pre, created, lastOk, ntx, prevOk, creator, pending, race>>

\* a transaction starts: the runtime hands the instruction a working copy
Start(t) ==
    /\ tx' = t
    /\ pc' = "try_accounts"
    /\ work' = accounts[t.ref]
    /\ st' = NoSt
    /\ result' = "Pending"
    /\ pre' = accounts
    /\ prevOk' = lastOk[t.ref]
    /\ handled' = FALSE
    /\ UNCHANGED <<accounts, created, lastOk, capFailed, creator>>

\* a transaction is submitted and started at once
Begin(t) ==
    /\ ntx < MaxTx
    /\ ntx' = ntx + 1
    /\ Start(t)
    /\ UNCHANGED <<pending, race>>

\* a client submits initialize(video_hash, authenticity_score) with the accounts
\* storage_account = ref and signer, which has signed or not
SubmitInitialize(ref, hash, score, signed) ==
    /\ pc = "idle"
    /\ Begin([op |-> "initialize", ref |-> ref, hash |-> hash, score |-> score,
              signed |-> signed, caller |-> Client])

\* a client submits update(new_video_hash, new_authenticity_score) with the
\* account storage_account = ref
SubmitUpdate(ref, hash, score) ==
    /\ pc = "idle"
    /\ Begin([op |-> "update", ref |-> ref, hash |-> hash, score |-> score,
              caller |-> Client])

\* Initialize: signer first, then the init of storage_account
InitializeAccounts ==
    /\ pc = "try_accounts"
    /\ tx.op = "initialize"
    /\ IF ~SignerCheck(tx.signed)
       THEN Fail("AuthorizationFailed", work)
       ELSE LET c == InitConstraint(work)
            IN  IF c.err # "Ok"
                THEN Fail(c.err, work)
                ELSE /\ work' = c.account
                     /\ st' = TryDeserializeUnchecked(c.account.data)
                     /\ pc' = "handler"
                     /\ UNCHANGED <<accounts, tx, result, pre, created, lastOk, capFailed, ntx,
                                 prevOk, creator, pending, race, handled>>

\* variant: Update with an authority: only the client whose initialize committed
\* on the account may update it
UpdateAccounts_authority ==
    /\ pc = "try_accounts"
    /\ tx.op = "update"
    /\ LET l == AccountLoad(work)
       IN  IF l.err # "Ok"
           THEN Fail(l.err, work)
           ELSE IF tx.caller # creator[tx.ref]
           THEN Fail("AuthorizationFailed", work)
           ELSE /\ st' = l.storage_account
                /\ pc' = "handler"
                /\ UNCHANGED <<accounts, tx, work, result, pre, created, lastOk,
                               capFailed, ntx, prevOk, creator, pending, race, handled>>

\* Update: the load of storage_account
UpdateAccounts ==
    /\ pc = "try_accounts"
    /\ tx.op = "update"
    /\ LET l == AccountLoad(work)
       IN  IF l.err # "Ok"
           THEN Fail(l.err, work)
           ELSE /\ st' = l.storage_account
                /\ pc' = "handler"
                /\ UNCHANGED <<accounts, tx, work, result, pre, created, lastOk, capFailed, ntx,
                                 prevOk, creator, pending, race, handled>>

\* the body of initialize: the fields as lines 11-12 assign them
InitializeHandler ==
    /\ pc = "handler"
    /\ tx.op = "initialize"
    /\ LET h == initialize(st, tx.hash, tx.score)
       IN  st' = h.storage_account
    /\ pc' = "exit"
    /\ UNCHANGED <<accounts, tx, work, result, pre, created, lastOk, capFailed, ntx,
                                 prevOk, creator, pending, race, handled>>

\* the body of update: the fields as lines 19-20 assign them
UpdateHandler ==
    /\ pc = "handler"
    /\ tx.op = "update"
    /\ LET h == update(st, tx.hash, tx.score)
       IN  st' = h.storage_account
    /\ pc' = "exit"
    /\ UNCHANGED <<accounts, tx, work, result, pre, created, lastOk, capFailed, ntx,
                                 prevOk, creator, pending, race, handled>>

\* after Ok(()) of the handler the struct is serialized into the account's data
Exit ==
    /\ pc = "exit"
    /\ LET e == AccountExit(work, st)
       IN  IF e.err # "Ok"
           THEN Fail(e.err, e.account)
           ELSE /\ work' = e.account
                /\ pc' = "commit"
                /\ UNCHANGED <<accounts, tx, st, result, pre, created, lastOk, capFailed, ntx,
                                 prevOk, creator, pending, race, handled>>

\* the transaction succeeded: its account becomes the committed one
Commit ==
    /\ pc = "commit"
    /\ accounts' = CommitLedger(accounts, tx.ref, work)
    /\ pc' = "idle"
    /\ work' = Unallocated
    /\ st' = NoSt
    /\ result' = "Ok"
    /\ created' = IF tx.op = "initialize" THEN created \cup {tx.ref} ELSE created
    /\ lastOk' = [lastOk EXCEPT ![tx.ref] =
                     [op |-> tx.op, video_hash |-> tx.hash,
                      authenticity_score |-> tx.score]]
    /\ creator' = IF tx.op = "initialize"
                  THEN [creator EXCEPT ![tx.ref] = tx.caller] ELSE creator
    /\ handled' = TRUE
    /\ UNCHANGED <<tx, pre, capFailed, ntx, prevOk, pending, race>>

\* the runtime gives the transaction up at any point before it commits
HostAbort ==
    /\ pc # "idle"
    /\ Fail("HostAbort", work)

Next ==
    \/ \E ref \in Refs, hash \in Hashes, score \in Scores, signed \in BOOLEAN :
          SubmitInitialize(ref, hash, score, signed)
    \/ \E ref \in Refs, hash \in Hashes, score \in Scores :
          SubmitUpdate(ref, hash, score)
    \/ InitializeAccounts
    \/ UpdateAccounts
    \/ InitializeHandler
    \/ UpdateHandler
    \/ Exit
    \/ Commit
    \/ HostAbort

Spec == Init /\ [][Next]_vars

----------------------------------------------------------------------------
(* Several clients: transactions are submitted at any time, also while another
   is in flight, and wait; the runtime starts a waiting one, any of them, when
   no transaction is in flight *)

\* the argument pairs the clients use
HostArgs == {[hash |-> <<120>>, score |-> 200],
             [hash |-> Rep(256, 100), score |-> 950],
             [hash |-> Rep(257, 100), score |-> 0]}

\* the transactions the clients submit
HostTxs ==
    {[op |-> "initialize", ref |-> r, hash |-> a.hash, score |-> a.score,
      signed |-> TRUE, caller |-> c] : r \in Refs, a \in HostArgs, c \in Callers}
    \cup
    {[op |-> "update", ref |-> r, hash |-> a.hash, score |-> a.score,
      caller |-> c] : r \in Refs, a \in HostArgs, c \in Callers}

\* the initialize that has committed before the clients start
FirstTx == [op |-> "initialize", ref |-> "A", hash |-> <<>>, score |-> 0,
            signed |-> TRUE, caller |-> Client]

\* the state of Spec after FirstTx has committed on reference A
HostInit ==
    /\ accounts = ProcessInstruction([r \in Refs |-> Unallocated], FirstTx).ledger
    /\ pc = "idle"
    /\ tx = FirstTx
    /\ work = Unallocated
    /\ st = NoSt
    /\ result = "Ok"
    /\ pre = [r \in Refs |-> Unallocated]
    /\ created = {FirstTx.ref}
    /\ lastOk = [r \in Refs |-> IF r = FirstTx.ref
                                THEN [op |-> FirstTx.op, video_hash |-> FirstTx.hash,
                                      authenticity_score |-> FirstTx.score]
                                ELSE NoRec]
    /\ capFailed = {}
    /\ ntx = 1
    /\ prevOk = NoRec
    /\ creator = [r \in Refs |-> IF r = FirstTx.ref THEN FirstTx.caller ELSE "nobody"]
    /\ pending = {}
    /\ race = NoRace
    /\ handled = TRUE

\* a client submits t: it waits, not yet overtaken by any transaction
Enqueue(t) ==
    /\ ntx < MaxTx
    /\ ntx' = ntx + 1
    /\ pending' = pending \cup {[t |-> t, raced |-> FALSE]}
    /\ UNCHANGED <<accounts, pc, tx, work, st, result, pre, created, lastOk,
                   capFailed, prevOk, creator, race, handled>>

\* the runtime starts the waiting transaction e when none is in flight; those
\* left waiting have seen it start, and e remembers the transaction that
\* started while it waited, if there was one
Schedule(e) ==
    /\ pc = "idle"
    /\ e \in pending
    /\ pending' = {[p EXCEPT !.raced = TRUE] : p \in pending \ {e}}
    /\ race' = IF e.raced
               THEN [first |-> tx, before |-> pre, result |-> result]
               ELSE NoRace
    /\ Start(e.t)
    /\ UNCHANGED ntx

NextHost ==
    \/ \E t \in HostTxs : Enqueue(t)
    \/ \E e \in pending : Schedule(e)
    \/ InitializeAccounts
    \/ UpdateAccounts
    \/ InitializeHandler
    \/ UpdateHandler
    \/ Exit
    \/ Commit
    \/ HostAbort

SpecHost == HostInit /\ [][NextHost]_vars

----------------------------------------------------------------------------
(* Vocabulary of the properties *)

\* the argument pair of an instruction
Args(t) == [video_hash |-> t.hash, authenticity_score |-> t.score]

\* the errors an instruction can end in
ErrorKinds == {"CapacityExceeded", "AlreadyInitialized", "NotInitialized",
               "AuthorizationFailed"}

\* the last transaction ran to its end: it was not given up by the runtime
Finished == pc = "idle" /\ result \in ErrorKinds \cup {"Ok"}

FinishedInitialize == Finished /\ tx.op = "initialize"

FinishedUpdate == Finished /\ tx.op = "update"

----------------------------------------------------------------------------
(* Properties *)

\* C1: an initialize with a signer that signed and a hash of at most 256 bytes,
\* on a reference that was unallocated when it started, ends Ok, and the
\* reference then reads as exactly the (hash, score) of the call.
C1_CreateThenRead ==
    (/\ FinishedInitialize
     /\ tx.signed
     /\ pre[tx.ref] = Unallocated
     /\ Len(tx.hash) <= MaxHashLen)
    => /\ result = "Ok"
       /\ Initialized(accounts[tx.ref])
       /\ Read(accounts[tx.ref]) = Args(tx)

\* C1 witness: a committed initialize whose hash is exactly 256 bytes
C1_Witness ==
    /\ FinishedInitialize
    /\ result = "Ok"
    /\ Len(tx.hash) = MaxHashLen
    /\ pre[tx.ref] = Unallocated
    /\ Read(accounts[tx.ref]) = Args(tx)

\* C2: an update with a hash of at most 256 bytes on an initialized reference
\* ends Ok and the reference then reads as exactly the (hash, score) of the
\* update; nothing of the value it had before is left.
C2_OverwriteReplaces ==
    (/\ FinishedUpdate
     /\ Initialized(pre[tx.ref])
     /\ Len(tx.hash) <= MaxHashLen)
    => /\ result = "Ok"
       /\ Read(accounts[tx.ref]) = Args(tx)

\* C2 witness: initialize then update, the update differing in both fields
C2_Witness ==
    /\ FinishedUpdate
    /\ result = "Ok"
    /\ ntx = 2
    /\ Read(pre[tx.ref]).video_hash # tx.hash
    /\ Read(pre[tx.ref]).authenticity_score # tx.score
    /\ Read(accounts[tx.ref]) = Args(tx)

\* C3: an initialize on a reference that is initialized never ends Ok and leaves
\* the account as it was; with a signer that signed its error is
\* AlreadyInitialized.
C3_CreateOnInitialized ==
    (/\ FinishedInitialize
     /\ Initialized(pre[tx.ref]))
    => /\ result # "Ok"
       /\ tx.signed => result = "AlreadyInitialized"
       /\ accounts[tx.ref] = pre[tx.ref]
       /\ Read(accounts[tx.ref]) = Read(pre[tx.ref])

\* C3 witness: AlreadyInitialized on a record whose value came from an update,
\* with arguments that differ from the record in both fields
C3_Witness ==
    /\ FinishedInitialize
    /\ result = "AlreadyInitialized"
    /\ lastOk[tx.ref] # NoRec
    /\ lastOk[tx.ref].op = "update"
    /\ Read(accounts[tx.ref]).video_hash # tx.hash
    /\ Read(accounts[tx.ref]).authenticity_score # tx.score

\* C4: an update on a reference on which no initialize ever committed ends
\* NotInitialized and leaves the reference unallocated.
C4_UpdateOnUnallocated ==
    (/\ FinishedUpdate
     /\ tx.ref \notin created)
    => /\ result = "NotInitialized"
       /\ accounts[tx.ref] = Unallocated

\* C4 witness: NotInitialized for an update whose hash would have fitted
C4_Witness ==
    /\ FinishedUpdate
    /\ result = "NotInitialized"
    /\ Len(tx.hash) <= MaxHashLen
    /\ accounts[tx.ref] = Unallocated

\* C5: an initialize with a hash of more than 256 bytes on an unallocated
\* reference ends CapacityExceeded and the reference is unallocated afterwards,
\* so that the init of a later initialize on it is not refused.
C5_CreateTooLong ==
    (/\ FinishedInitialize
     /\ tx.signed
     /\ pre[tx.ref] = Unallocated
     /\ Len(tx.hash) > MaxHashLen)
    => /\ result = "CapacityExceeded"
       /\ accounts[tx.ref] = Unallocated
       /\ InitConstraint(accounts[tx.ref]).err = "Ok"

\* C5 witness: a reference on which an initialize ended CapacityExceeded and a
\* later initialize with a shorter hash committed
C5_Witness ==
    /\ FinishedInitialize
    /\ result = "Ok"
    /\ tx.ref \in capFailed
    /\ Len(tx.hash) <= MaxHashLen
    /\ Read(accounts[tx.ref]) = Args(tx)

\* C6 as stated: an update with a hash of more than 256 bytes on an initialized
\* reference ends CapacityExceeded with the record reading as before, and the
\* capacity check comes before any field is assigned: while the check is still
\* to come, the loaded record holds the fields of the committed one.
C6_CheckBeforeMutation ==
    /\ (/\ FinishedUpdate
        /\ Initialized(pre[tx.ref])
        /\ Len(tx.hash) > MaxHashLen)
       => /\ result = "CapacityExceeded"
          /\ Read(accounts[tx.ref]) = Read(pre[tx.ref])
    /\ (/\ pc = "exit"
        /\ tx.op = "update"
        /\ Len(tx.hash) > MaxHashLen)
       => st = Read(accounts[tx.ref])

\* C6 as amended: an update with a hash of more than 256 bytes on an initialized
\* reference ends CapacityExceeded when the record is written back on exit, by
\* which time both fields of the loaded record hold the new values; the
\* committed account is untouched and reads as its previous (hash, score).
C6_OverwriteTooLong ==
    /\ (/\ FinishedUpdate
        /\ Initialized(pre[tx.ref])
        /\ Len(tx.hash) > MaxHashLen)
       => /\ result = "CapacityExceeded"
          /\ accounts[tx.ref] = pre[tx.ref]
          /\ Read(accounts[tx.ref]) = Read(pre[tx.ref])
    /\ (/\ pc = "exit"
        /\ tx.op = "update"
        /\ Len(tx.hash) > MaxHashLen)
       => /\ st = Args(tx)
          /\ accounts[tx.ref] = pre[tx.ref]

\* C6 witness: CapacityExceeded for an update whose arguments differ from the
\* record in both fields
C6_Witness ==
    /\ FinishedUpdate
    /\ result = "CapacityExceeded"
    /\ Initialized(accounts[tx.ref])
    /\ Read(accounts[tx.ref]).video_hash # tx.hash
    /\ Read(accounts[tx.ref]).authenticity_score # tx.score

\* C7: in every state, whatever is in flight, each initialized reference reads as
\* the argument pair of one instruction, the last one that committed on it.
C7_NoTornRecord ==
    \A r \in Refs :
        Initialized(accounts[r])
        => /\ lastOk[r] # NoRec
           /\ Read(accounts[r]) =
                 [video_hash |-> lastOk[r].video_hash,
                  authenticity_score |-> lastOk[r].authenticity_score]

\* C7 witness: an update given up by the runtime after its handler had assigned
\* fields that differ from the record in both fields
C7_Witness ==
    /\ pc = "idle"
    /\ result = "HostAbort"
    /\ tx.op = "update"
    /\ handled
    /\ Initialized(accounts[tx.ref])
    /\ Read(accounts[tx.ref]).video_hash # tx.hash
    /\ Read(accounts[tx.ref]).authenticity_score # tx.score

\* C8: while a transaction is in flight, and after one that ended in an error or
\* was given up by the runtime, every account (owner and data) is as it was
\* when the transaction started.
C8_FailureLeavesState ==
    /\ pc # "idle" => accounts = pre
    /\ (pc = "idle" /\ result \in ErrorKinds \cup {"HostAbort"}) => accounts = pre

\* C8 witness: an initialize given up by the runtime after its handler ran, the
\* account having been allocated in the working copy
C8_Witness ==
    /\ pc = "idle"
    /\ result = "HostAbort"
    /\ tx.op = "initialize"
    /\ handled
    /\ accounts[tx.ref] = Unallocated

\* C10: a reference is initialized exactly if an initialize committed on it; an
\* initialized reference stays initialized in every step; the commit of an
\* update leaves owner and discriminator of its account as they were.
C10_Lifecycle ==
    /\ [](\A r \in Refs : Initialized(accounts[r]) <=> r \in created)
    /\ [][\A r \in Refs : Initialized(accounts[r]) => Initialized(accounts'[r])]_vars
    /\ [][(pc = "commit" /\ tx.op = "update" /\ result' = "Ok")
          => /\ Initialized(accounts[tx.ref])
             /\ Initialized(accounts'[tx.ref])
             /\ accounts'[tx.ref].owner = accounts[tx.ref].owner
             /\ Len(accounts'[tx.ref].data) = Len(accounts[tx.ref].data)]_vars

\* C10 witness: a reference initialized by an initialize, changed by an update,
\* and still initialized after a later instruction on it ended in an error
C10_Witness ==
    /\ pc = "idle"
    /\ result \in ErrorKinds
    /\ tx.ref \in created
    /\ lastOk[tx.ref].op = "update"
    /\ Initialized(accounts[tx.ref])

\* C12: an initialize whose signer did not sign ends AuthorizationFailed before
\* anything of it runs: it never gets past the validation of its accounts, its
\* working copy is never allocated, its handler body never runs, and every account is
\* as it was, an unallocated reference unallocated.
C12_UnsignedCreate ==
    /\ (FinishedInitialize /\ ~tx.signed)
       => /\ result = "AuthorizationFailed"
          /\ accounts = pre
          /\ ~handled
    /\ (pc # "idle" /\ tx.op = "initialize" /\ ~tx.signed)
       => /\ pc = "try_accounts"
          /\ work = pre[tx.ref]
          /\ accounts = pre

\* C12 witness: AuthorizationFailed on a reference that is still unallocated
C12_Witness ==
    /\ FinishedInitialize
    /\ ~tx.signed
    /\ result = "AuthorizationFailed"
    /\ Len(tx.hash) <= MaxHashLen
    /\ accounts[tx.ref] = Unallocated

\* C14: an update that commits right after a committed update with the same
\* (hash, score) on the same reference leaves the account as the first left it.
C14_RepeatedOverwrite ==
    (/\ FinishedUpdate
     /\ result = "Ok"
     /\ prevOk = [op |-> "update", video_hash |-> tx.hash,
                  authenticity_score |-> tx.score])
    => /\ accounts[tx.ref] = pre[tx.ref]
       /\ Read(accounts[tx.ref]) = Read(pre[tx.ref])
       /\ Read(accounts[tx.ref]) = Args(tx)

\* C14 witness: the second of two equal updates committed, with a hash and a
\* score that are not the zero values
C14_Witness ==
    /\ FinishedUpdate
    /\ result = "Ok"
    /\ prevOk = [op |-> "update", video_hash |-> tx.hash,
                 authenticity_score |-> tx.score]
    /\ tx.hash # <<>>
    /\ tx.score # 0
    /\ Read(accounts[tx.ref]) = Args(tx)

\* C16: in every state each initialized account holds a record that fits its
\* allocation: discriminator, length prefix, hash and score are at most the
\* bytes of the account, and the hash is at most 256 bytes.
C16_RecordFits ==
    \A r \in Refs :
        Initialized(accounts[r])
        => LET rec == Read(accounts[r])
           IN  /\ rec # DidNotDeserialize
               /\ 8 + 4 + Len(rec.video_hash) + 8 <= Len(accounts[r].data)
               /\ 8 + 4 + Len(rec.video_hash) + 8 <= SPACE
               /\ Len(rec.video_hash) <= MaxHashLen

\* C16 witness: a record with a hash of 256 bytes after an instruction with a
\* longer hash ended CapacityExceeded on it
C16_Witness ==
    /\ pc = "idle"
    /\ result = "CapacityExceeded"
    /\ Initialized(accounts[tx.ref])
    /\ Len(Read(accounts[tx.ref]).video_hash) = MaxHashLen

\* C17: whatever an initialized account holds, it has the full allocation; an
\* update with a hash of at most 256 bytes on it commits; and after each
\* committed instruction the write-back of any record with a hash of at most
\* 256 bytes fits the account it left.
C17_CapacityKept ==
    /\ \A r \in Refs :
          Initialized(accounts[r]) => Len(accounts[r].data) = SPACE
    /\ (FinishedUpdate /\ Initialized(pre[tx.ref]) /\ Len(tx.hash) <= MaxHashLen)
       => /\ result = "Ok"
          /\ Len(accounts[tx.ref].data) = SPACE
    /\ (pc = "idle" /\ result = "Ok")
       => \A h \in Hashes, s \in Scores :
             Len(h) <= MaxHashLen
             => AccountExit(accounts[tx.ref],
                            [video_hash |-> h, authenticity_score |-> s]).err = "Ok"

\* C17 witness: an update to a hash of 256 bytes committed on a record that held
\* the empty hash and, from the bytes left behind it, a longer one before that
C17_Witness ==
    /\ FinishedUpdate
    /\ result = "Ok"
    /\ Len(tx.hash) = MaxHashLen
    /\ Read(pre[tx.ref]).video_hash = <<>>
    /\ pre[tx.ref].data[21] = 100
    /\ Read(accounts[tx.ref]) = Args(tx)

----------------------------------------------------------------------------
(* Properties of several clients (SpecHost) *)

\* C11: an update on an initialized reference ends as its arguments alone decide,
\* Ok with the record replaced if the hash is at most 256 bytes, whoever
\* submitted it and whoever initialized the account: result and ledger are what
\* the instruction yields on the ledger it found when any client submits it.
C11_AnyCallerOverwrites ==
    (FinishedUpdate /\ Initialized(pre[tx.ref]))
    => /\ result = IF Len(tx.hash) <= MaxHashLen THEN "Ok" ELSE "CapacityExceeded"
       /\ Read(accounts[tx.ref]) =
             IF Len(tx.hash) <= MaxHashLen THEN Args(tx) ELSE Read(pre[tx.ref])
       /\ \A c \in Callers :
             /\ result = ProcessInstruction(pre, [tx EXCEPT !.caller = c]).err
             /\ accounts = ProcessInstruction(pre, [tx EXCEPT !.caller = c]).ledger

\* C11 witness: a committed update submitted by a client other than the one that
\* initialized the account
C11_Witness ==
    /\ FinishedUpdate
    /\ result = "Ok"
    /\ creator[tx.ref] \in Callers
    /\ tx.caller # creator[tx.ref]
    /\ Read(accounts[tx.ref]) = Args(tx)

\* the update in flight or last run waited while another update of the same
\* initialized reference started: the two were submitted concurrently
RacedUpdates ==
    /\ race # NoRace
    /\ tx.op = "update"
    /\ race.first.op = "update"
    /\ race.first.ref = tx.ref
    /\ Initialized(race.before[tx.ref])

\* C13: of two updates of one initialized reference that waited together, the
\* second starts on the ledger the first left; whatever is in flight, the
\* account reads as the complete pair from before both, of the first or of the
\* second, never a mixture; and once the second has committed it reads as the
\* second's pair.
C13_SerialOverwrites ==
    /\ pc # "idle" => accounts = pre
    /\ RacedUpdates
       => /\ Read(pre[tx.ref]) \in {Read(race.before[tx.ref]), Args(race.first)}
          /\ race.result = "Ok" => Read(pre[tx.ref]) = Args(race.first)
          /\ race.result # "Ok" => pre[tx.ref] = race.before[tx.ref]
          /\ Read(accounts[tx.ref]) \in {Read(pre[tx.ref]), Args(tx)}
          /\ (pc = "idle" /\ result = "Ok") => Read(accounts[tx.ref]) = Args(tx)
          /\ (pc = "idle" /\ result # "Ok") => accounts[tx.ref] = pre[tx.ref]

\* C13 witness: both updates committed, the second differing from the first in
\* both fields and submitted by another client
C13_Witness ==
    /\ RacedUpdates
    /\ pc = "idle"
    /\ result = "Ok"
    /\ race.result = "Ok"
    /\ race.first.hash # tx.hash
    /\ race.first.score # tx.score
    /\ race.first.caller # tx.caller
    /\ Read(accounts[tx.ref]) = Args(tx)

\* the transaction last run waited while a transaction on another reference
\* started, and both ran to their end
RacedDisjoint ==
    /\ Finished
    /\ race # NoRace
    /\ race.result # "HostAbort"
    /\ race.first.ref # tx.ref

\* C15: a transaction leaves every account but its own as it was, at each of its
\* positions and whatever its end; and of two transactions on different
\* references that waited together, the order run (first, then tx) ends in the
\* ledger and the results of the other order (tx, then first).
C15_DisjointReferences ==
    /\ \A r \in Refs : r # tx.ref => accounts[r] = pre[r]
    /\ Finished
       => /\ result = ProcessInstruction(pre, tx).err
          /\ accounts = ProcessInstruction(pre, tx).ledger
    /\ RacedDisjoint
       => LET mine   == ProcessInstruction(race.before, tx)
              theirs == ProcessInstruction(mine.ledger, race.first)
          IN  /\ mine.err = result
              /\ theirs.err = race.result
              /\ theirs.ledger = accounts

\* C15 witness: an initialize on one reference and an update on the other, both
\* committed after waiting together
C15_Witness ==
    /\ RacedDisjoint
    /\ result = "Ok"
    /\ race.result = "Ok"
    /\ tx.op # race.first.op
    /\ accounts[tx.ref] # pre[tx.ref]
    /\ accounts[race.first.ref] # race.before[race.first.ref]

====
